---------------------------- MODULE Spec2Model ----------------------------
(***************************************************************************)
(* A model of the CHIP-8 emulator of src/src/chip8.rs (Chip8Emulator) as   *)
(* it is driven by src/src/main.rs: new(), initialize(), load_game() and   *)
(* then emulate_cycle() over and over.                                     *)
(*                                                                         *)
(* The struct's fields are the variables.  A Rust panic (todo!(), panic!,  *)
(* an index out of bounds, unwrap) ends the process: it is modelled by     *)
(* status leaving "running", with the fields as they were when the panic   *)
(* was raised, and no operation is enabled afterwards.                     *)
(***************************************************************************)
EXTENDS Integers, Sequences, FiniteSets, TLC

VARIABLES
    memory,       \* memory: [u8; 4096], a function 0..4095 -> 0..255
    screen,       \* screen: [bool; 64 * 32], as the set of the indices that hold true
    V,            \* V: [u8; 16], a function 0..15 -> 0..255
    I,            \* I: usize
    pc,           \* pc: usize
    delay_timer,  \* delay_timer: u8
    sound_timer,  \* sound_timer: u8
    stack,        \* stack: [u16; 16], a function 0..15 -> 0..65535
    sp,           \* sp: usize
    keys,         \* keys: [bool; 16]
    status,       \* "running", or the panic that ended the process
    stdout,       \* what the last initialize, load_game or emulate_cycle printed ("" or "BEEP")
    hist,         \* history: the last operations, newest first, each with the state it started in
    callers,      \* history: the pc of every call_subroutine that has not been returned from
    loaded,       \* history: the file given to load_game since the last initialize (<<>> for none)
    pressed,      \* history: the key states the host last gave to set_keys
    last_call     \* history: the last call that can write the fields, and the fields that held something when it was made

vars == <<memory, screen, V, I, pc, delay_timer, sound_timer, stack, sp, keys,
          status, stdout, hist, callers, loaded, pressed, last_call>>

----------------------------------------------------------------------------
(* Sizes fixed by the struct's types. *)

MemSize == 4096
NumRegs == 16
StackSize == 16
ScreenWidth == 64
ScreenSize == 2048
ProgramStart == 512
\* usize::MAX read as a two's-complement number: the model checker's integers
\* are 32 bits wide and cannot hold 2^64 - 1.
UsizeMax == -1

(* Bounds of the model. *)

\* How many past operations hist keeps.
HistLen == 2
\* rand::random::<u8>() is drawn from the bytes within RandSpread of 0, 128 and 255.
RandSpread == 1
\* The deepest chain of nested calls the call/return programs make.
MaxNest == 16

----------------------------------------------------------------------------
(* Bit operations on machine words. *)

RECURSIVE BitAnd(_, _)
BitAnd(a, b) ==
    IF a = 0 \/ b = 0 THEN 0
    ELSE (a % 2) * (b % 2) + 2 * BitAnd(a \div 2, b \div 2)

RECURSIVE BitOr(_, _)
BitOr(a, b) ==
    IF a = 0 THEN b
    ELSE IF b = 0 THEN a
    ELSE (IF a % 2 = 1 \/ b % 2 = 1 THEN 1 ELSE 0) + 2 * BitOr(a \div 2, b \div 2)

RECURSIVE Pow2(_)
Pow2(k) == IF k = 0 THEN 1 ELSE 2 * Pow2(k - 1)

ShiftRight(a, k) == a \div Pow2(k)

join_nibbles2(r0, r1) == BitOr(r0 * 16, r1)

join_nibbles3(r0, r1, r2) == BitOr(BitOr(r0 * 256, r1 * 16), r2)

chip8_fontset ==
    << \hF0, \h90, \h90, \h90, \hF0,
       \h20, \h60, \h20, \h20, \h70,
       \hF0, \h10, \hF0, \h80, \hF0,
       \hF0, \h10, \hF0, \h10, \hF0,
       \h90, \h90, \hF0, \h10, \h10,
       \hF0, \h80, \hF0, \h10, \hF0,
       \hF0, \h80, \hF0, \h90, \hF0,
       \hF0, \h10, \h20, \h40, \h40,
       \hF0, \h90, \hF0, \h90, \hF0,
       \hF0, \h90, \hF0, \h10, \hF0,
       \hF0, \h90, \hF0, \h90, \h90,
       \hE0, \h90, \hE0, \h90, \hE0,
       \hF0, \h80, \h80, \h80, \hF0,
       \hE0, \h90, \h90, \h90, \hE0,
       \hF0, \h80, \hF0, \h80, \hF0,
       \hF0, \h80, \hF0, \h80, \h80 >>

----------------------------------------------------------------------------
(* The emulator as a value: the struct's fields, the process's status and  *)
(* the output of the operation in progress.                                *)

Machine ==
    [ memory |-> memory, screen |-> screen, V |-> V, I |-> I, pc |-> pc,
      delay_timer |-> delay_timer, sound_timer |-> sound_timer,
      stack |-> stack, sp |-> sp, keys |-> keys,
      status |-> status, stdout |-> "" ]

Panic(s, why) == [s EXCEPT !.status = why]

Running(s) == s.status = "running"

IndexPanic == "panic: index out of bounds"
TodoPanic == "panic: not yet implemented"
OverflowPanic == "panic: attempt to subtract with overflow"
OpcodePanic == "panic: not a recognized opcode"

new ==
    [ memory |-> [a \in 0..(MemSize - 1) |-> 0],
      screen |-> {},
      V |-> [r \in 0..(NumRegs - 1) |-> 0],
      I |-> 0, pc |-> 0,
      delay_timer |-> 0, sound_timer |-> 0,
      stack |-> [i \in 0..(StackSize - 1) |-> 0],
      sp |-> 0,
      keys |-> [k \in 0..15 |-> FALSE],
      status |-> "running", stdout |-> "" ]

\* initialize without its last two assignments: the timers keep running.
initialize_keeps_timers(s) ==
    [s EXCEPT !.pc = ProgramStart, !.I = 0, !.sp = 0,
              !.screen = {},
              !.stack = [i \in 0..(StackSize - 1) |-> 0],
              !.V = [r \in 0..(NumRegs - 1) |-> 0],
              !.memory = [a \in 0..(MemSize - 1) |->
                             IF a < 80 THEN chip8_fontset[a + 1] ELSE 0]]

initialize(s) ==
    [s EXCEPT !.pc = ProgramStart, !.I = 0, !.sp = 0,
              !.screen = {},
              !.stack = [i \in 0..(StackSize - 1) |-> 0],
              !.V = [r \in 0..(NumRegs - 1) |-> 0],
              !.memory = [a \in 0..(MemSize - 1) |->
                             IF a < 80 THEN chip8_fontset[a + 1] ELSE 0],
              !.delay_timer = 0, !.sound_timer = 0]

\* The bytes are written one by one; the write of byte i panics when
\* i + 0x200 is no index of memory, with the bytes before it written.
load_game(s, file) ==
    LET fits == IF Len(file) <= MemSize - ProgramStart
                THEN Len(file) ELSE MemSize - ProgramStart
        written == [s EXCEPT !.memory =
                       [a \in 0..(MemSize - 1) |->
                           IF a >= ProgramStart /\ a - ProgramStart < fits
                           THEN file[a - ProgramStart + 1] ELSE s.memory[a]]]
    IN  IF Len(file) > fits THEN Panic(written, IndexPanic) ELSE written

split_opcode(value) ==
    << BitAnd(ShiftRight(value, 12), 15),
       BitAnd(ShiftRight(value, 8), 15),
       BitAnd(ShiftRight(value, 4), 15),
       BitAnd(ShiftRight(value, 0), 15) >>

----------------------------------------------------------------------------
(* The instruction handlers, each a function of the machine before it. *)

\* pub fn set_keys(&self) {}
set_keys(s) == s

clear_screen(s) == Panic(s, TodoPanic)

\* A return that forgets the "+ 2" (and so runs the call again).
return_subroutine_no_advance(s, overflow_checks) ==
    IF s.sp = 0 THEN Panic(s, OverflowPanic)
    ELSE [s EXCEPT !.sp = s.sp - 1, !.pc = s.stack[s.sp - 1]]

\* self.sp -= 1 on sp = 0: with overflow checks (a debug build) the
\* subtraction panics; without them (a release build) sp wraps to
\* usize::MAX and the index into stack panics.
return_subroutine(s, overflow_checks) ==
    IF s.sp = 0
    THEN IF overflow_checks THEN Panic(s, OverflowPanic)
         ELSE Panic([s EXCEPT !.sp = UsizeMax], IndexPanic)
    ELSE LET sp1 == s.sp - 1
         IN  IF sp1 \notin 0..(StackSize - 1) THEN Panic([s EXCEPT !.sp = sp1], IndexPanic)
             ELSE [s EXCEPT !.sp = sp1, !.pc = s.stack[sp1] + 2]

machine_code_routine(s, address) == Panic(s, TodoPanic)

goto(s, address) == [s EXCEPT !.pc = address]

call_subroutine(s, address) ==
    IF s.sp \notin 0..(StackSize - 1) THEN Panic(s, IndexPanic)
    ELSE [s EXCEPT !.stack[s.sp] = s.pc, !.sp = s.sp + 1, !.pc = address]

skip_const_eq(s, reg, c) ==
    IF s.V[reg] = c THEN [s EXCEPT !.pc = s.pc + 4] ELSE [s EXCEPT !.pc = s.pc + 2]

skip_const_neq(s, reg, c) ==
    IF s.V[reg] # c THEN [s EXCEPT !.pc = s.pc + 4] ELSE [s EXCEPT !.pc = s.pc + 2]

skip_reg_eq(s, reg, reg2) == Panic(s, TodoPanic)

set_const(s, reg, c) == [s EXCEPT !.V[reg] = c, !.pc = s.pc + 2]

add_const(s, reg, c) == [s EXCEPT !.V[reg] = (s.V[reg] + c) % 256, !.pc = s.pc + 2]

set(s, reg, reg2) == [s EXCEPT !.V[reg] = s.V[reg2], !.pc = s.pc + 2]

or(s, reg, reg2) == [s EXCEPT !.V[reg] = BitOr(s.V[reg], s.V[reg2]), !.pc = s.pc + 2]

and(s, reg, reg2) == [s EXCEPT !.V[reg] = BitAnd(s.V[reg], s.V[reg2]), !.pc = s.pc + 2]

xor(s, reg, reg2) == Panic(s, TodoPanic)

\* u8::overflowing_add: the wrapped sum and whether it overflowed.
overflowing_add(a, b) == <<(a + b) % 256, a + b > 255>>

\* u8::overflowing_sub: the wrapped difference and whether it overflowed.
overflowing_sub(a, b) == <<(a - b + 256) % 256, a - b < 0>>

\* An add that sets the flag on a carry and leaves it alone otherwise.
add_stale_flag(s, reg, reg2) ==
    LET r == overflowing_add(s.V[reg], s.V[reg2])
        v1 == [s.V EXCEPT ![reg] = r[1]]
    IN  [s EXCEPT !.V = [v1 EXCEPT ![15] = IF r[2] THEN 1 ELSE @], !.pc = s.pc + 2]

\* V[reg] is written first and V[0xF] after it, in both arms.
add(s, reg, reg2) ==
    LET r == overflowing_add(s.V[reg], s.V[reg2])
        v1 == [s.V EXCEPT ![reg] = r[1]]
    IN  [s EXCEPT !.V = [v1 EXCEPT ![15] = IF r[2] THEN 1 ELSE 0], !.pc = s.pc + 2]

sub(s, reg, reg2) ==
    LET r == overflowing_sub(s.V[reg], s.V[reg2])
        v1 == [s.V EXCEPT ![reg] = r[1]]
    IN  [s EXCEPT !.V = [v1 EXCEPT ![15] = IF r[2] THEN 1 ELSE 0], !.pc = s.pc + 2]

div_2(s, reg, reg2) == Panic(s, TodoPanic)

diff(s, reg, reg2) == Panic(s, TodoPanic)

mul_2(s, reg, reg2) == Panic(s, TodoPanic)

\* skip_reg_neq with == for !=: it skips when the registers are equal.
skip_reg_neq_on_equal(s, reg, reg2) ==
    IF s.V[reg] = s.V[reg2] THEN [s EXCEPT !.pc = s.pc + 4] ELSE [s EXCEPT !.pc = s.pc + 2]

skip_reg_neq(s, reg, reg2) ==
    IF s.V[reg] # s.V[reg2] THEN [s EXCEPT !.pc = s.pc + 4] ELSE [s EXCEPT !.pc = s.pc + 2]

set_i(s, address) == [s EXCEPT !.I = address, !.pc = s.pc + 2]

jump_offset(s, address) == Panic(s, TodoPanic)

rand(s, reg, c, random) == [s EXCEPT !.V[reg] = BitAnd(random, c), !.pc = s.pc + 2]

\* The two loops of draw, flattened: step k is row yline = k / 8, column
\* xline = k % 8.  The row's byte is read before its first column.
RECURSIVE draw_loop(_, _, _, _, _)
draw_loop(s, x, y, height, k) ==
    IF k >= 8 * height THEN s
    ELSE LET yline == k \div 8
             xline == k % 8
         IN  IF s.I + yline >= MemSize THEN Panic(s, IndexPanic)
             ELSE LET pixel == s.memory[s.I + yline]
                      idx == x + xline + ((y + yline) * ScreenWidth)
                  IN  IF BitAnd(pixel, ShiftRight(128, xline)) # 0
                      THEN IF idx >= ScreenSize THEN Panic(s, IndexPanic)
                           ELSE draw_loop(
                                  [s EXCEPT !.V[15] = IF idx \in s.screen THEN 1 ELSE @,
                                            !.screen = IF idx \in s.screen
                                                       THEN s.screen \ {idx}
                                                       ELSE s.screen \cup {idx}],
                                  x, y, height, k + 1)
                      ELSE draw_loop(s, x, y, height, k + 1)

\* A draw that sets the sprite's cells instead of toggling them.
RECURSIVE draw_loop_or(_, _, _, _, _)
draw_loop_or(s, x, y, height, k) ==
    IF k >= 8 * height THEN s
    ELSE IF s.I + (k \div 8) >= MemSize THEN Panic(s, IndexPanic)
    ELSE LET pixel == s.memory[s.I + (k \div 8)]
             idx == x + (k % 8) + ((y + (k \div 8)) * ScreenWidth)
         IN  IF BitAnd(pixel, ShiftRight(128, k % 8)) # 0
             THEN IF idx >= ScreenSize THEN Panic(s, IndexPanic)
                  ELSE draw_loop_or(
                         [s EXCEPT !.V[15] = IF idx \in s.screen THEN 1 ELSE @,
                                   !.screen = s.screen \cup {idx}],
                         x, y, height, k + 1)
             ELSE draw_loop_or(s, x, y, height, k + 1)

draw_or(s, x, y, height) ==
    LET r == draw_loop_or([s EXCEPT !.V[15] = 0], s.V[x], s.V[y], height, 0)
    IN  IF Running(r) THEN [r EXCEPT !.pc = r.pc + 2] ELSE r

\* A draw that resets VF before it reads VX and VY.
draw_reset_first(s, x, y, height) ==
    LET s0 == [s EXCEPT !.V[15] = 0]
        r == draw_loop(s0, s0.V[x], s0.V[y], height, 0)
    IN  IF Running(r) THEN [r EXCEPT !.pc = r.pc + 2] ELSE r

draw(s, x, y, height) ==
    LET r == draw_loop([s EXCEPT !.V[15] = 0], s.V[x], s.V[y], height, 0)
    IN  IF Running(r) THEN [r EXCEPT !.pc = r.pc + 2] ELSE r

skip_if_key(s, reg) == Panic(s, TodoPanic)

\* V[reg] is a u8: the index into keys panics when it is above 15.
skip_if_nkey(s, reg) ==
    IF s.V[reg] > 15 THEN Panic(s, IndexPanic)
    ELSE IF ~s.keys[s.V[reg]] THEN [s EXCEPT !.pc = s.pc + 4]
    ELSE [s EXCEPT !.pc = s.pc + 2]

get_delay(s, reg) == [s EXCEPT !.V[reg] = s.delay_timer, !.pc = s.pc + 2]

get_key(s, reg) == Panic(s, TodoPanic)

set_delay(s, reg) == [s EXCEPT !.delay_timer = s.V[reg], !.pc = s.pc + 2]

set_sound(s, reg) == [s EXCEPT !.sound_timer = s.V[reg], !.pc = s.pc + 2]

inc_i(s, reg) == Panic(s, TodoPanic)

set_i_sprite(s, reg) == [s EXCEPT !.I = reg * 5, !.pc = s.pc + 2]

\* Three writes in order; each panics when its address is no index of memory.
bcd(s, reg) ==
    LET v == s.V[reg]
        w0 == IF s.I >= MemSize THEN Panic(s, IndexPanic)
              ELSE [s EXCEPT !.memory[s.I] = v \div 100]
        w1 == IF ~Running(w0) THEN w0
              ELSE IF s.I + 1 >= MemSize THEN Panic(w0, IndexPanic)
              ELSE [w0 EXCEPT !.memory[s.I + 1] = (v \div 10) % 10]
        w2 == IF ~Running(w1) THEN w1
              ELSE IF s.I + 2 >= MemSize THEN Panic(w1, IndexPanic)
              ELSE [w1 EXCEPT !.memory[s.I + 2] = (v % 100) % 10]
    IN  IF Running(w2) THEN [w2 EXCEPT !.pc = s.pc + 2] ELSE w2

reg_dump(s, reg) == Panic(s, TodoPanic)

RECURSIVE reg_load_loop(_, _, _)
reg_load_loop(s, reg, i) ==
    IF i > reg THEN s
    ELSE IF s.I + i >= MemSize THEN Panic(s, IndexPanic)
    ELSE reg_load_loop([s EXCEPT !.V[i] = s.memory[s.I + i]], reg, i + 1)

reg_load(s, reg) ==
    LET r == reg_load_loop(s, reg, 0)
    IN  IF Running(r) THEN [r EXCEPT !.pc = r.pc + 2] ELSE r

----------------------------------------------------------------------------
(* emulate_cycle: fetch, the match on the nibbles, then the timers. *)

\* The arm of the match in emulate_cycle that a word takes: the first
\* pattern, in the order written, that the nibbles fit.
Decode(n) ==
    IF n[1] = 0 /\ n[2] = 0 /\ n[3] = 14 /\ n[4] = 0 THEN "clear_screen"
    ELSE IF n[1] = 0 /\ n[2] = 0 /\ n[3] = 14 /\ n[4] = 14 THEN "return_subroutine"
    ELSE IF n[1] = 0 THEN "machine_code_routine"
    ELSE IF n[1] = 1 THEN "goto"
    ELSE IF n[1] = 2 THEN "call_subroutine"
    ELSE IF n[1] = 3 THEN "skip_const_eq"
    ELSE IF n[1] = 4 THEN "skip_const_neq"
    ELSE IF n[1] = 5 /\ n[4] = 0 THEN "skip_reg_eq"
    ELSE IF n[1] = 6 THEN "set_const"
    ELSE IF n[1] = 7 THEN "add_const"
    ELSE IF n[1] = 8 /\ n[4] = 0 THEN "set"
    ELSE IF n[1] = 8 /\ n[4] = 1 THEN "or"
    ELSE IF n[1] = 8 /\ n[4] = 2 THEN "and"
    ELSE IF n[1] = 8 /\ n[4] = 3 THEN "xor"
    ELSE IF n[1] = 8 /\ n[4] = 4 THEN "add"
    ELSE IF n[1] = 8 /\ n[4] = 5 THEN "sub"
    ELSE IF n[1] = 8 /\ n[4] = 6 THEN "div_2"
    ELSE IF n[1] = 8 /\ n[4] = 7 THEN "diff"
    ELSE IF n[1] = 8 /\ n[4] = 14 THEN "mul_2"
    ELSE IF n[1] = 9 /\ n[4] = 0 THEN "skip_reg_neq"
    ELSE IF n[1] = 10 THEN "set_i"
    ELSE IF n[1] = 11 THEN "jump_offset"
    ELSE IF n[1] = 12 THEN "rand"
    ELSE IF n[1] = 13 THEN "draw"
    ELSE IF n[1] = 14 /\ n[3] = 9 /\ n[4] = 14 THEN "skip_if_key"
    ELSE IF n[1] = 14 /\ n[3] = 10 /\ n[4] = 1 THEN "skip_if_nkey"
    ELSE IF n[1] = 15 /\ n[3] = 0 /\ n[4] = 7 THEN "get_delay"
    ELSE IF n[1] = 15 /\ n[3] = 0 /\ n[4] = 10 THEN "get_key"
    ELSE IF n[1] = 15 /\ n[3] = 1 /\ n[4] = 5 THEN "set_delay"
    ELSE IF n[1] = 15 /\ n[3] = 1 /\ n[4] = 8 THEN "set_sound"
    ELSE IF n[1] = 15 /\ n[3] = 1 /\ n[4] = 14 THEN "inc_i"
    ELSE IF n[1] = 15 /\ n[3] = 2 /\ n[4] = 9 THEN "set_i_sprite"
    ELSE IF n[1] = 15 /\ n[3] = 3 /\ n[4] = 3 THEN "bcd"
    ELSE IF n[1] = 15 /\ n[3] = 5 /\ n[4] = 5 THEN "reg_dump"
    ELSE IF n[1] = 15 /\ n[3] = 6 /\ n[4] = 5 THEN "reg_load"
    ELSE "unrecognized"

\* The call each arm makes, with its operands joined from the nibbles.
Dispatch(s, n, random, overflow_checks) ==
    LET arm == Decode(n)
        addr == join_nibbles3(n[2], n[3], n[4])
        c == join_nibbles2(n[3], n[4])
        x == n[2]
        y == n[3]
    IN  CASE arm = "clear_screen" -> clear_screen(s)
          [] arm = "return_subroutine" -> return_subroutine(s, overflow_checks)
          [] arm = "machine_code_routine" -> machine_code_routine(s, addr)
          [] arm = "goto" -> goto(s, addr)
          [] arm = "call_subroutine" -> call_subroutine(s, addr)
          [] arm = "skip_const_eq" -> skip_const_eq(s, x, c)
          [] arm = "skip_const_neq" -> skip_const_neq(s, x, c)
          [] arm = "skip_reg_eq" -> skip_reg_eq(s, x, y)
          [] arm = "set_const" -> set_const(s, x, c)
          [] arm = "add_const" -> add_const(s, x, c)
          [] arm = "set" -> set(s, x, y)
          [] arm = "or" -> or(s, x, y)
          [] arm = "and" -> and(s, x, y)
          [] arm = "xor" -> xor(s, x, y)
          [] arm = "add" -> add(s, x, y)
          [] arm = "sub" -> sub(s, x, y)
          [] arm = "div_2" -> div_2(s, x, y)
          [] arm = "diff" -> diff(s, x, y)
          [] arm = "mul_2" -> mul_2(s, x, y)
          [] arm = "skip_reg_neq" -> skip_reg_neq(s, x, y)
          [] arm = "set_i" -> set_i(s, addr)
          [] arm = "jump_offset" -> jump_offset(s, addr)
          [] arm = "rand" -> rand(s, x, c, random)
          [] arm = "draw" -> draw(s, x, y, n[4])
          [] arm = "skip_if_key" -> skip_if_key(s, x)
          [] arm = "skip_if_nkey" -> skip_if_nkey(s, x)
          [] arm = "get_delay" -> get_delay(s, x)
          [] arm = "get_key" -> get_key(s, x)
          [] arm = "set_delay" -> set_delay(s, x)
          [] arm = "set_sound" -> set_sound(s, x)
          [] arm = "inc_i" -> inc_i(s, x)
          [] arm = "set_i_sprite" -> set_i_sprite(s, x)
          [] arm = "bcd" -> bcd(s, x)
          [] arm = "reg_dump" -> reg_dump(s, x)
          [] arm = "reg_load" -> reg_load(s, x)
          [] OTHER -> Panic(s, OpcodePanic)

\* Timers that beep in every cycle that ends with the sound timer at 0.
UpdateTimers_beep_at_zero(s) ==
    LET d == IF s.delay_timer > 0 THEN [s EXCEPT !.delay_timer = s.delay_timer - 1] ELSE s
        e == IF d.sound_timer > 0 THEN [d EXCEPT !.sound_timer = d.sound_timer - 1] ELSE d
    IN  IF e.sound_timer = 0 THEN [e EXCEPT !.stdout = "BEEP"] ELSE e

\* Timers whose decrement is not guarded: a u8 at 0 wraps to 255.
UpdateTimers_wrapping(s) ==
    [s EXCEPT !.delay_timer = (s.delay_timer + 255) % 256,
              !.sound_timer = (s.sound_timer + 255) % 256,
              !.stdout = IF s.sound_timer = 1 THEN "BEEP" ELSE @]

\* "Update timers": println!("BEEP") when the sound timer's decrement
\* brings it to 0.
UpdateTimers(s) ==
    LET d == IF s.delay_timer > 0 THEN [s EXCEPT !.delay_timer = s.delay_timer - 1] ELSE s
    IN  IF d.sound_timer > 0
        THEN [d EXCEPT !.sound_timer = d.sound_timer - 1,
                       !.stdout = IF d.sound_timer - 1 = 0 THEN "BEEP" ELSE @]
        ELSE d

\* Whether both bytes of the opcode at pc are inside memory.
FetchInBounds(s) == s.pc < MemSize /\ s.pc + 1 < MemSize

opcode_value(s) == BitOr(s.memory[s.pc] * 256, s.memory[s.pc + 1])

emulate_cycle(s, random, overflow_checks) ==
    IF ~FetchInBounds(s) THEN Panic(s, IndexPanic)
    ELSE LET d == Dispatch(s, split_opcode(opcode_value(s)), random, overflow_checks)
         IN  IF Running(d) THEN UpdateTimers(d) ELSE d

----------------------------------------------------------------------------
(* The inputs: the ROM files load_game is given, and the bytes            *)
(* rand::random::<u8>() returns.                                           *)

RandomBytes ==
    {b \in 0..255 : \/ b <= RandSpread
                    \/ b >= 255 - RandSpread
                    \/ (b >= 128 - RandSpread /\ b <= 128 + RandSpread)}

\* A file's bytes from its 16-bit words, high byte first (as the fetch reads them).
Bytes(words) ==
    [i \in 1..(2 * Len(words)) |->
        IF i % 2 = 1 THEN words[(i + 1) \div 2] \div 256 ELSE words[i \div 2] % 256]

Op(n0, n1, n2, n3) == n0 * 4096 + n1 * 256 + n2 * 16 + n3

\* jump to p; at p: call addr; at addr: return.  (p < addr, both even, from 0x200.)
CallReturnProgram(p, addr) ==
    [i \in 1..((addr - ProgramStart) \div 2 + 1) |->
        IF i = (addr - ProgramStart) \div 2 + 1 THEN \h00EE
        ELSE IF i = (p - ProgramStart) \div 2 + 1 THEN \h2000 + addr
        ELSE IF i = 1 THEN \h1000 + p
        ELSE 0]

\* k routines, routine i at 0x200 + 4i being "call routine i+1; return",
\* and a last one that only returns.
NestProgram(k) ==
    [i \in 1..(2 * k + 1) |->
        IF i % 2 = 1 /\ i < 2 * k + 1 THEN \h2000 + ProgramStart + 2 * (i + 1)
        ELSE \h00EE]

\* V[x] and V[y] random, then 8xyN.
ArithProgram(x, y, n3) == <<Op(12, x, 15, 15), Op(12, y, 15, 15), Op(8, x, y, n3)>>

\* V[x] = a, V[y] = b, then 8xyN.
ConstArithProgram(x, a, y, b, n3) == <<Op(6, x, 0, 0) + a, Op(6, y, 0, 0) + b, Op(8, x, y, n3)>>

\* V[x] random, then Fx29.
SpriteProgram(x) == <<Op(12, x, 15, 15), Op(15, x, 2, 9)>>

\* Both timers set from random registers, then the word w.
TimersThenProgram(w) == <<\hC0FF, \hC1FF, \hF015, \hF118, w>>

\* The sound timer set from a register of 0..3, so that it reaches 0 in a later cycle.
TimerProgram == <<\hC0FF, \hC103, \hF015, \hF118, \h6200, \hF207, \h6200, \h6200>>

\* A sprite drawn twice at a random place: from the bytes after the program,
\* from the font, over an earlier drawing, and with VF as the x register.
DrawPrograms ==
    { <<\hA20A, \hC03F, \hC11F, \hD011, \hD011, \hFF00>>,
      <<\hA005, \hC03F, \hC11F, \hD015, \hD015>>,
      <<\hC03F, \hC11F, \hD015, \hA00A, \hD015, \hD015>>,
      <<\hA005, \hCF3F, \hC11F, \hDF15, \hDF15>> }

RegisterPrograms ==
    { <<\hA300, \hC0FF, \hC1FF, \hF155, \h6000, \h6100, \hF165>>,
      <<\hA000, \hF365>> }

TourProgram ==
    << \hC0FF, \h3000, \h1206, \h4001, \h7001, \h6155, \h8100, \h6233,
       \h8201, \h8202, \h9120, \h7FFF, \hA300, \hF033, \hE2A1, \hF265, \h1220 >>

\* One word each: the instructions whose handlers are not written, words
\* that no arm of the match takes, and a jump to the last byte of memory.
SingleWords ==
    { \h00E0, \h0123, \h5010, \h8013, \h8016, \h8017, \h801E, \hB300,
      \hE09E, \hF00A, \hF01E, \hF055, \h00EE, \h2200, \h1FFF }

UnrecognizedWords == { \h5011, \h8008, \hE000, \hF000, \h9AB1, \h800F, \hE19F, \hFFFF }

RegPairs == { <<0, 1>>, <<1, 0>>, <<2, 2>>, <<15, 1>>, <<1, 15>>, <<15, 15>> }

\* A random key id in V0 (rand & 0x0F), then skip_if_nkey, skip_if_key or get_key.
KeyPrograms ==
    { <<\hC00F, \hE0A1, \h6100, \h6200>>, <<\hC00F, \hE09E>>, <<\hC00F, \hF00A>> }

\* I at the last bytes of memory, then bcd, reg_load or draw reaching past
\* them; and the same instructions just inside.
MemoryEdgePrograms ==
    { <<\hAFFE, \hC0FF, \hF033>>, <<\hAFFD, \hC0FF, \hF033>>,
      <<\hA050, \hF033>>, <<\hAFFF, \h60AA, \h61BB, \hF165>>,
      <<\hAFFE, \hF165>>, <<\hAFFF, \hD002>>, <<\hAFFF, \hD001>> }

\* The skips on both of their branches, and a jump.
SkipPrograms ==
    { <<\hC003, \h3001, \h6100, \h4001, \h6100, \hC103, \h9010, \h6200, \h1212, \h6300>> }

Programs ==
    { CallReturnProgram(p, a) : p \in {\h200, \h204}, a \in {\h208, \h20C} }
    \cup { NestProgram(MaxNest) }
    \cup { ArithProgram(r[1], r[2], n3) : r \in RegPairs, n3 \in {4, 5} }
    \cup { ConstArithProgram(0, 5, 1, 3, 5), ConstArithProgram(0, 3, 1, 5, 5),
           ConstArithProgram(0, 255, 1, 2, 4), ConstArithProgram(0, 1, 1, 1, 4) }
    \cup { SpriteProgram(x) : x \in {0, 1, 5, 15} }
    \cup { TimersThenProgram(w) : w \in UnrecognizedWords }
    \cup { TimerProgram, TourProgram }
    \cup DrawPrograms \cup RegisterPrograms
    \cup { <<w>> : w \in SingleWords }
    \cup KeyPrograms \cup MemoryEdgePrograms \cup SkipPrograms

\* The longest file memory holds from 0x200 (a jump to itself, then 0xAA
\* to the last byte), and a file one byte longer.
LargestFile ==
    [i \in 1..(MemSize - ProgramStart) |->
        IF i = 1 THEN \h12 ELSE IF i = 2 THEN 0 ELSE \hAA]

TooLargeFile == [i \in 1..(MemSize - ProgramStart + 1) |-> \hAA]

Files == { Bytes(words) : words \in Programs } \cup { LargestFile, TooLargeFile }

\* What the host's update_keys passes to set_keys: no key held, or keys 1 and 3.
KeyStates == { [k \in 0..15 |-> FALSE], [k \in 0..15 |-> k \in {1, 3}] }

----------------------------------------------------------------------------
(* The state machine. *)

Snapshot ==
    [ V |-> V, I |-> I, pc |-> pc, sp |-> sp, stack |-> stack,
      delay_timer |-> delay_timer, sound_timer |-> sound_timer, screen |-> screen,
      stdout |-> stdout, callers |-> callers ]

\* hist gets the operation, the opcode it ran (0 for none) and the state it started in.
Remember(op, word) ==
    LET all == <<[op |-> op, word |-> word, pre |-> Snapshot]>> \o hist
    IN  hist' = SubSeq(all, 1, IF Len(all) < HistLen THEN Len(all) ELSE HistLen)

Commit(r) ==
    /\ memory' = r.memory
    /\ screen' = r.screen
    /\ V' = r.V
    /\ I' = r.I
    /\ pc' = r.pc
    /\ delay_timer' = r.delay_timer
    /\ sound_timer' = r.sound_timer
    /\ stack' = r.stack
    /\ sp' = r.sp
    /\ keys' = r.keys
    /\ status' = r.status
    /\ stdout' = r.stdout

\* Chip8Emulator::new().
Init ==
    /\ memory = new.memory
    /\ screen = new.screen
    /\ V = new.V
    /\ I = new.I
    /\ pc = new.pc
    /\ delay_timer = new.delay_timer
    /\ sound_timer = new.sound_timer
    /\ stack = new.stack
    /\ sp = new.sp
    /\ keys = new.keys
    /\ status = new.status
    /\ stdout = new.stdout
    /\ hist = <<>>
    /\ callers = <<>>
    /\ loaded = <<>>
    /\ pressed = [k \in 0..15 |-> FALSE]
    /\ last_call = [name |-> "new", dirty |-> {}]

\* The fields that differ from what new() gave them.
Dirty ==
    { f \in {"memory", "screen", "V", "I", "pc", "delay_timer", "sound_timer", "stack", "sp"} :
        Machine[f] # new[f] }

\* initialize(); the history starts over.
Initialize ==
    /\ status = "running"
    /\ Commit(initialize(Machine))
    /\ hist' = <<>>
    /\ callers' = <<>>
    /\ last_call' = [name |-> "initialize", dirty |-> Dirty]
    /\ loaded' = <<>>
    /\ UNCHANGED pressed

\* load_game(file), which main.rs calls before the first cycle.
LoadGame ==
    /\ status = "running"
    /\ hist = <<>>
    /\ \E file \in Files : Commit(load_game(Machine, file)) /\ loaded' = file
    /\ Remember("load_game", 0)
    /\ last_call' = [name |-> "load_game", dirty |-> {}]
    /\ UNCHANGED <<callers, pressed>>

\* emulate_cycle() when the fetch is out of memory.
FetchOutOfBounds ==
    /\ status = "running"
    /\ ~FetchInBounds(Machine)
    /\ Commit(emulate_cycle(Machine, 0, TRUE))
    /\ Remember("fetch", 0)
    /\ last_call' = [name |-> "emulate_cycle", dirty |-> {}]
    /\ UNCHANGED <<callers, loaded, pressed>>

\* emulate_cycle() when the word at pc takes the given arm of the match.
Cycle(arm) ==
    /\ status = "running"
    /\ FetchInBounds(Machine)
    /\ Decode(split_opcode(opcode_value(Machine))) = arm
    /\ \E random \in (IF arm = "rand" THEN RandomBytes ELSE {0}),
          overflow_checks \in (IF arm = "return_subroutine" THEN BOOLEAN ELSE {TRUE}) :
          LET r == emulate_cycle(Machine, random, overflow_checks)
          IN  /\ Commit(r)
              /\ callers' = IF ~Running(r) THEN callers
                            ELSE IF arm = "call_subroutine" THEN Append(callers, pc)
                            ELSE IF arm = "return_subroutine"
                            THEN SubSeq(callers, 1, Len(callers) - 1)
                            ELSE callers
    /\ Remember(arm, opcode_value(Machine))
    /\ last_call' = [name |-> "emulate_cycle", dirty |-> {}]
    /\ UNCHANGED <<loaded, pressed>>

\* set_keys(), called by the host's update_keys with the keys held: its
\* body is empty, so no field changes and nothing is printed; pressed keeps
\* what the host passed.
SetKeys ==
    /\ status = "running"
    /\ \E held \in KeyStates : held # pressed /\ pressed' = held
    /\ Commit(set_keys([Machine EXCEPT !.stdout = stdout]))
    /\ UNCHANGED <<hist, callers, loaded, last_call>>

ClearScreen == Cycle("clear_screen")
ReturnSubroutine == Cycle("return_subroutine")
MachineCodeRoutine == Cycle("machine_code_routine")
Goto == Cycle("goto")
CallSubroutine == Cycle("call_subroutine")
SkipConstEq == Cycle("skip_const_eq")
SkipConstNeq == Cycle("skip_const_neq")
SkipRegEq == Cycle("skip_reg_eq")
SetConst == Cycle("set_const")
AddConst == Cycle("add_const")
Set == Cycle("set")
Or == Cycle("or")
And == Cycle("and")
Xor == Cycle("xor")
Add == Cycle("add")
Sub == Cycle("sub")
Div2 == Cycle("div_2")
Diff == Cycle("diff")
Mul2 == Cycle("mul_2")
SkipRegNeq == Cycle("skip_reg_neq")
SetI == Cycle("set_i")
JumpOffset == Cycle("jump_offset")
Rand == Cycle("rand")
Draw == Cycle("draw")
SkipIfKey == Cycle("skip_if_key")
SkipIfNkey == Cycle("skip_if_nkey")
GetDelay == Cycle("get_delay")
GetKey == Cycle("get_key")
SetDelay == Cycle("set_delay")
SetSound == Cycle("set_sound")
IncI == Cycle("inc_i")
SetISprite == Cycle("set_i_sprite")
Bcd == Cycle("bcd")
RegDump == Cycle("reg_dump")
RegLoad == Cycle("reg_load")
Unrecognized == Cycle("unrecognized")

EmulateCycle ==
    \/ FetchOutOfBounds
    \/ ClearScreen \/ ReturnSubroutine \/ MachineCodeRoutine \/ Goto
    \/ CallSubroutine \/ SkipConstEq \/ SkipConstNeq \/ SkipRegEq
    \/ SetConst \/ AddConst \/ Set \/ Or \/ And \/ Xor \/ Add \/ Sub
    \/ Div2 \/ Diff \/ Mul2 \/ SkipRegNeq \/ SetI \/ JumpOffset \/ Rand
    \/ Draw \/ SkipIfKey \/ SkipIfNkey \/ GetDelay \/ GetKey \/ SetDelay
    \/ SetSound \/ IncI \/ SetISprite \/ Bcd \/ RegDump \/ RegLoad
    \/ Unrecognized

Next == Initialize \/ LoadGame \/ SetKeys \/ EmulateCycle

Spec == Init /\ [][Next]_vars

----------------------------------------------------------------------------
(* What the properties below read from the history. *)

\* The last operation was emulate_cycle taking this arm of the match.
Ran(arm) == Len(hist) >= 1 /\ hist[1].op = arm

\* The one before it was emulate_cycle taking this arm.
RanBefore(arm) == Len(hist) >= 2 /\ hist[2].op = arm

\* The state the last operation started in, and the one before it.
Pre == hist[1].pre
Pre2 == hist[2].pre

\* The operands of the last opcode: its second, third and fourth nibble.
OpX == (hist[1].word \div 256) % 16
OpY == (hist[1].word \div 16) % 16
OpN == hist[1].word % 16

\* The last operation was an emulate_cycle that reached the match.
RanCycle == Len(hist) >= 1 /\ hist[1].op \notin {"load_game", "fetch"}

\* The last operation returned to its caller.
Returned == status = "running"

Unchanged(pre) ==
    /\ V = pre.V /\ I = pre.I /\ pc = pre.pc /\ sp = pre.sp /\ stack = pre.stack
    /\ delay_timer = pre.delay_timer /\ sound_timer = pre.sound_timer
    /\ screen = pre.screen

----------------------------------------------------------------------------
\* C1: a call_subroutine followed at once by a return_subroutine leaves pc
\* two past the call and sp as before the call; and every return goes to
\* two past the most recent call not yet returned from (LIFO), with sp one
\* less, for any nesting the 16 slots hold.
C1_CallReturnRoundTrip ==
    /\ (Ran("return_subroutine") /\ RanBefore("call_subroutine") /\ Pre2.sp < StackSize)
          => /\ Returned
             /\ pc = Pre2.pc + 2
             /\ sp = Pre2.sp
    /\ (Ran("return_subroutine") /\ Len(Pre.callers) > 0)
          => /\ Returned
             /\ pc = Pre.callers[Len(Pre.callers)] + 2
             /\ sp = Len(Pre.callers) - 1
             /\ callers = SubSeq(Pre.callers, 1, Len(Pre.callers) - 1)
    /\ (Ran("call_subroutine") /\ Pre.sp < StackSize)
          => /\ Returned
             /\ sp = Pre.sp + 1
             /\ pc = join_nibbles3(OpX, OpY, OpN)

\* A call made with 15 calls outstanding, returned from at once.
C1_Witness ==
    /\ Ran("return_subroutine") /\ RanBefore("call_subroutine")
    /\ Pre2.sp = StackSize - 1
    /\ Len(callers) = StackSize - 1
    /\ Returned
    /\ pc = Pre2.pc + 2

----------------------------------------------------------------------------
\* C2: after 8XY5, VX = (VX - VY) mod 256 and VF = 1 when VX >= VY before
\* the subtraction (no borrow), VF = 0 when a borrow occurred.  (VX is read
\* back only for x # 0xF, where VF does not overwrite it.)
C2_SubWithBorrow ==
    Ran("sub") =>
        /\ Returned
        /\ OpX # 15 => V[OpX] = (Pre.V[OpX] - Pre.V[OpY] + 256) % 256
        /\ V[15] = IF Pre.V[OpX] >= Pre.V[OpY] THEN 1 ELSE 0

----------------------------------------------------------------------------
\* C3: after 8XY4, VF = 1 when VX + VY >= 256 and VF = 0 otherwise, for
\* every x and y (0xF included, whatever VF held before), and for
\* x # 0xF, VX = (VX + VY) mod 256.
C3_AddWithCarry ==
    Ran("add") =>
        /\ Returned
        /\ V[15] = IF Pre.V[OpX] + Pre.V[OpY] >= 256 THEN 1 ELSE 0
        /\ OpX # 15 => V[OpX] = (Pre.V[OpX] + Pre.V[OpY]) % 256
        /\ \A r \in 0..14 : r # OpX => V[r] = Pre.V[r]

\* An add whose y register is VF, holding 1, and whose sum does not carry:
\* the stale 1 is replaced by 0.
C3_Witness ==
    /\ Ran("add") /\ Returned
    /\ OpY = 15 /\ OpX # 15
    /\ Pre.V[15] = 1
    /\ Pre.V[OpX] + Pre.V[OpY] < 256
    /\ V[15] = 0
    /\ V[OpX] = Pre.V[OpX] + 1

----------------------------------------------------------------------------
\* C4: after FX29, I = VX * 5, computed from the value held in register x
\* and not from the register id x; pc advances by 2.
C4_SpriteAddressFromValue ==
    Ran("set_i_sprite") =>
        /\ Returned
        /\ I = Pre.V[OpX] * 5
        /\ pc = Pre.pc + 2

----------------------------------------------------------------------------
\* C5: a cycle whose word fits no arm of the match returns to its caller
\* (a fault outcome, not an abort) and leaves pc, the registers, I, the
\* stack, sp, the framebuffer and both timers as they were.
C5_UnknownOpcodeInert ==
    Ran("unrecognized") =>
        /\ Returned
        /\ Unchanged(Pre)

----------------------------------------------------------------------------
\* C6: 0 <= sp <= 16 in every reachable state; a call with sp = 16 and a
\* return with sp = 0 each return to the caller (a fault outcome, not an
\* abort) and change neither sp, the stack nor pc.
C6_StackPointerInvariant ==
    /\ sp \in 0..StackSize
    /\ (Ran("call_subroutine") /\ Pre.sp = StackSize) =>
          (Returned /\ sp = Pre.sp /\ stack = Pre.stack /\ pc = Pre.pc)
    /\ (Ran("return_subroutine") /\ Pre.sp = 0) =>
          (Returned /\ sp = Pre.sp /\ stack = Pre.stack /\ pc = Pre.pc)

----------------------------------------------------------------------------
(* The timers as the tick of the last cycle found them: what the          *)
(* instruction left, which is the value before the cycle unless the        *)
(* instruction was the one that sets the timer.                            *)

SoundAtTick == IF hist[1].op = "set_sound" THEN Pre.V[OpX] ELSE Pre.sound_timer

DelayAtTick == IF hist[1].op = "set_delay" THEN Pre.V[OpX] ELSE Pre.delay_timer

Decayed(t) == IF t > 0 THEN t - 1 ELSE 0

\* C7: a cycle prints BEEP if and only if its tick takes the sound timer
\* from 1 to 0; a tick that finds it at 0 leaves it at 0 without a beep, a
\* cycle that does not reach its tick prints nothing; and from a sound
\* timer of 1, two cycles of instructions that do not set it give one beep,
\* in the first.
C7_BeepOneShot ==
    /\ (RanCycle /\ Returned) =>
          /\ (stdout = "BEEP") <=> (SoundAtTick = 1 /\ sound_timer = 0)
          /\ SoundAtTick = 0 => (sound_timer = 0 /\ stdout = "")
    /\ ~(RanCycle /\ Returned) => stdout = ""
    /\ (/\ RanCycle /\ Returned /\ Len(hist) >= 2
        /\ hist[2].op \notin {"load_game", "fetch", "set_sound"}
        /\ hist[1].op # "set_sound"
        /\ Pre2.sound_timer = 1) =>
          (Pre.stdout = "BEEP" /\ Pre.sound_timer = 0 /\ stdout = "" /\ sound_timer = 0)

\* The sound timer was 1, and two cycles that do not set it have run: the
\* first beeped, the second did not.
C7_Witness ==
    /\ RanCycle /\ Returned /\ Len(hist) >= 2
    /\ hist[2].op \notin {"load_game", "fetch", "set_sound"}
    /\ hist[1].op # "set_sound"
    /\ Pre2.sound_timer = 1
    /\ Pre.stdout = "BEEP"
    /\ stdout = ""
    /\ sound_timer = 0

----------------------------------------------------------------------------
----------------------------------------------------------------------------
(* The sprite of the last draw: its place, its height and its bytes. *)

SpriteX == Pre.V[OpX]
SpriteY == Pre.V[OpY]

SpriteInside == SpriteX + 7 <= ScreenWidth - 1 /\ SpriteY + OpN - 1 <= 31

\* The cells the sprite has a set bit for (bit 7 of a byte is the leftmost).
SpriteCells ==
    { SpriteX + c + (SpriteY + r) * ScreenWidth : <<c, r>> \in
        { cr \in (0..7) \X (0..(OpN - 1)) :
            (memory[Pre.I + cr[2]] \div Pow2(7 - cr[1])) % 2 = 1 } }

\* The same draw twice in a row: the same word, VX, VY and I.
DrewTwice ==
    /\ Ran("draw") /\ RanBefore("draw")
    /\ hist[1].word = hist[2].word
    /\ Pre.V[OpX] = Pre2.V[OpX] /\ Pre.V[OpY] = Pre2.V[OpY]
    /\ Pre.I = Pre2.I

\* C9: the same draw twice in a row, of a sprite that lies inside the
\* framebuffer (and inside memory), restores the framebuffer; and when the
\* framebuffer was clear under the sprite, the first draw leaves VF = 0
\* and the second leaves VF = 1 if the sprite has a set bit.
C9_DrawTwiceRestores ==
    (DrewTwice /\ SpriteInside /\ Pre.I + OpN <= MemSize) =>
        /\ Returned
        /\ screen = Pre2.screen
        /\ Pre.screen = (Pre2.screen \ SpriteCells) \cup (SpriteCells \ Pre2.screen)
        /\ (SpriteCells \cap Pre2.screen = {}) =>
              /\ Pre.V[15] = 0
              /\ SpriteCells # {} => V[15] = 1

\* A sprite drawn twice over an earlier drawing that it overlaps: the
\* first draw changed the framebuffer, the second brought it back.
C9_Witness ==
    /\ DrewTwice /\ SpriteInside /\ Returned
    /\ SpriteCells \cap Pre2.screen # {}
    /\ SpriteCells \ Pre2.screen # {}
    /\ Pre.screen # Pre2.screen
    /\ screen = Pre2.screen
    /\ V[15] = 1

----------------------------------------------------------------------------
\* C10: FX55 writes memory[I..I+n] = V[0..n], both ends included, and
\* returns; FX65 with I + n <= 4095 writes V[0..n] = memory[I..I+n] and
\* leaves V[n+1..15] and I unchanged; so a dump, then V[0..n] overwritten,
\* then a load with the same I brings V[0..n] back.
C10_DumpLoadRoundTrip ==
    /\ Ran("reg_dump") =>
          /\ Returned
          /\ \A i \in 0..OpX : Pre.I + i < MemSize => memory[Pre.I + i] = Pre.V[i]
          /\ V = Pre.V /\ I = Pre.I
    /\ (Ran("reg_load") /\ Pre.I + OpX <= MemSize - 1) =>
          /\ Returned
          /\ \A i \in 0..OpX : V[i] = memory[Pre.I + i]
          /\ \A i \in (OpX + 1)..15 : V[i] = Pre.V[i]
          /\ I = Pre.I

----------------------------------------------------------------------------
(* Steps, for the properties that compare the state before a call with   *)
(* the state after it.                                                     *)

\* The step is a load_game call.
LoadGameStep == hist = <<>> /\ hist' # <<>> /\ hist'[1].op = "load_game"

\* The step is an emulate_cycle call, and the arm it takes ("fetch" when
\* the opcode is not inside memory).
CycleStep(arm) == hist' # hist /\ hist' # <<>> /\ hist'[1].op = arm /\ hist'[1].pre = Snapshot

\* The operands of the opcode the step runs.
StepX == (hist'[1].word \div 256) % 16
StepY == (hist'[1].word \div 16) % 16
StepN == hist'[1].word % 16

----------------------------------------------------------------------------

FileFits(file) == Len(file) <= MemSize - ProgramStart

\* C11: load_game returns; a file of at most 4096 - 0x200 bytes is
\* then in memory from 0x200 on, byte for byte, with every byte below 0x200
\* as it was; a longer file leaves every byte of memory as it was.
C11_LoadAllOrNothing ==
    [][ LoadGameStep =>
           /\ status' = "running"
           /\ FileFits(loaded') =>
                 /\ \A i \in 1..Len(loaded') : memory'[ProgramStart + i - 1] = loaded'[i]
                 /\ \A a \in 0..(ProgramStart - 1) : memory'[a] = memory[a]
           /\ ~FileFits(loaded') => memory' = memory ]_vars

\* What the code does hold to: a file that fits is copied byte for byte
\* and load_game returns; a longer one is copied up to the last byte of
\* memory and load_game panics.
C11_LoadActual ==
    [][ LoadGameStep =>
           /\ \A i \in 1..Len(loaded') :
                 ProgramStart + i - 1 < MemSize => memory'[ProgramStart + i - 1] = loaded'[i]
           /\ \A a \in 0..(ProgramStart - 1) : memory'[a] = memory[a]
           /\ status' = (IF FileFits(loaded') THEN "running" ELSE IndexPanic) ]_vars

----------------------------------------------------------------------------
\* The instruction the bit-layout table gives a word, under the name of
\* its handler; "unrecognized" for a word the table does not hold.
TableInstruction(w) ==
    LET n0 == w \div 4096
        n3 == w % 16
        n2n3 == w % 256
    IN  IF w = \h00E0 THEN "clear_screen"
        ELSE IF w = \h00EE THEN "return_subroutine"
        ELSE CASE n0 = 0 -> "machine_code_routine"
               [] n0 = 1 -> "goto"
               [] n0 = 2 -> "call_subroutine"
               [] n0 = 3 -> "skip_const_eq"
               [] n0 = 4 -> "skip_const_neq"
               [] n0 = 5 -> IF n3 = 0 THEN "skip_reg_eq" ELSE "unrecognized"
               [] n0 = 6 -> "set_const"
               [] n0 = 7 -> "add_const"
               [] n0 = 8 -> CASE n3 = 0 -> "set" [] n3 = 1 -> "or" [] n3 = 2 -> "and"
                              [] n3 = 3 -> "xor" [] n3 = 4 -> "add" [] n3 = 5 -> "sub"
                              [] n3 = 6 -> "div_2" [] n3 = 7 -> "diff" [] n3 = 14 -> "mul_2"
                              [] OTHER -> "unrecognized"
               [] n0 = 9 -> IF n3 = 0 THEN "skip_reg_neq" ELSE "unrecognized"
               [] n0 = 10 -> "set_i"
               [] n0 = 11 -> "jump_offset"
               [] n0 = 12 -> "rand"
               [] n0 = 13 -> "draw"
               [] n0 = 14 -> CASE n2n3 = \h9E -> "skip_if_key" [] n2n3 = \hA1 -> "skip_if_nkey"
                               [] OTHER -> "unrecognized"
               [] n0 = 15 -> CASE n2n3 = \h07 -> "get_delay" [] n2n3 = \h0A -> "get_key"
                               [] n2n3 = \h15 -> "set_delay" [] n2n3 = \h18 -> "set_sound"
                               [] n2n3 = \h1E -> "inc_i" [] n2n3 = \h29 -> "set_i_sprite"
                               [] n2n3 = \h33 -> "bcd" [] n2n3 = \h55 -> "reg_dump"
                               [] n2n3 = \h65 -> "reg_load"
                               [] OTHER -> "unrecognized"

\* The nibbles split_opcode gives the last opcode are its four hex digits,
\* most significant first, and make the opcode again when rejoined.
SplitsRight ==
    LET w == hist[1].word
        n == split_opcode(w)
    IN  /\ n = << w \div 4096, (w \div 256) % 16, (w \div 16) % 16, w % 16 >>
        /\ n[1] * 4096 + join_nibbles3(n[2], n[3], n[4]) = w

\* C12: every fetched word is split into its four nibbles, most
\* significant first; the match takes the arm the bit-layout table gives
\* the word; and a word the table does not hold ends the cycle without a
\* panic.
C12_DecodeTotal ==
    RanCycle =>
        /\ SplitsRight
        /\ hist[1].op = TableInstruction(hist[1].word)
        /\ status # OpcodePanic

\* What the code does hold to: the nibbles and the arms follow the table,
\* and the words the table does not hold are the ones that panic in the
\* last arm of the match.
C12_DecodeActual ==
    RanCycle =>
        /\ SplitsRight
        /\ hist[1].op = TableInstruction(hist[1].word)
        /\ (hist[1].op = "unrecognized") <=> (status = OpcodePanic)

----------------------------------------------------------------------------
\* The keys the host has passed as held.
HeldKeys == {k \in 0..15 : pressed[k]}

LowestHeld == CHOOSE k \in HeldKeys : \A j \in HeldKeys : k <= j

\* C13: a cycle that runs FX0A returns; with no key held it leaves pc
\* and VX as they were; with a key held VX is the lowest held key and pc
\* is 2 further.
C13_GetKeyRepoll ==
    [][ CycleStep("get_key") =>
           /\ status' = "running"
           /\ HeldKeys = {} => pc' = pc /\ V'[StepX] = V[StepX]
           /\ HeldKeys # {} => pc' = pc + 2 /\ V'[StepX] = LowestHeld ]_vars

\* What the code does: get_key is todo!(), so the cycle panics with every
\* field as it was, whether a key is held or not.
C13_GetKeyActual ==
    Ran("get_key") => status = TodoPanic /\ Unchanged(Pre)

----------------------------------------------------------------------------
\* The key named by VX of the step's opcode is held, by what the host
\* last passed to set_keys.
KeyIsHeld == pressed[V[StepX]]

\* C14: a cycle that runs EXA1 with VX in 0..15 returns with pc 4
\* further when the key VX was not held in the last set_keys and 2 further
\* when it was; one that runs EX9E returns with pc 4 further when it was
\* held and 2 further when it was not.
C14_KeySkipsSeeSetKeys ==
    [][ /\ (CycleStep("skip_if_nkey") /\ V[StepX] <= 15) =>
              /\ status' = "running"
              /\ pc' = pc + (IF KeyIsHeld THEN 2 ELSE 4)
        /\ (CycleStep("skip_if_key") /\ V[StepX] <= 15) =>
              /\ status' = "running"
              /\ pc' = pc + (IF KeyIsHeld THEN 4 ELSE 2) ]_vars

\* What the code does: set_keys stores nothing, so no key is ever down
\* in keys and EXA1 always skips; EX9E is todo!() and panics.
C14_KeySkipsActual ==
    /\ \A k \in 0..15 : ~keys[k]
    /\ (Ran("skip_if_nkey") /\ Pre.V[OpX] <= 15) => Returned /\ pc = Pre.pc + 4
    /\ Ran("skip_if_key") => status = TodoPanic /\ Unchanged(Pre)

----------------------------------------------------------------------------
\* The state of a machine that was just switched on and initialized.
PowerOn ==
    /\ pc = \h200 /\ I = 0 /\ sp = 0
    /\ \A i \in 0..15 : stack[i] = 0
    /\ \A r \in 0..15 : V[r] = 0
    /\ delay_timer = 0 /\ sound_timer = 0
    /\ screen = {}
    /\ \A a \in 0..4095 : memory[a] = (IF a < 80 THEN chip8_fontset[a + 1] ELSE 0)

\* C15: after initialize, whatever was loaded, set or run before it,
\* pc is 0x200, I, sp, every stack slot, every register and both timers
\* are 0, the framebuffer is clear, the font is in memory[0..79] and every
\* other byte of memory is 0.
C15_InitializeResets == last_call.name = "initialize" => PowerOn

\* initialize was called on a machine whose program had set registers and
\* I and drawn, and reset it.
C15_Witness ==
    /\ last_call.name = "initialize"
    /\ {"memory", "V", "I", "pc", "screen"} \subseteq last_call.dirty
    /\ PowerOn

----------------------------------------------------------------------------
\* The last operation was a cycle whose word the match recognises.
RanRecognised == RanCycle /\ hist[1].op # "unrecognized"

\* C16: a cycle that fetches any of the 35 recognised instructions
\* returns; after 00E0 the framebuffer is clear; after 0NNN pc is 2
\* further.
C16_EveryStepCompletes ==
    /\ RanRecognised => Returned
    /\ Ran("clear_screen") => screen = {}
    /\ Ran("machine_code_routine") => pc = Pre.pc + 2

\* The handlers whose body is todo!().
TodoArms ==
    { "clear_screen", "machine_code_routine", "skip_reg_eq", "xor", "div_2", "diff",
      "mul_2", "jump_offset", "skip_if_key", "get_key", "inc_i", "reg_dump" }

\* What the code does: a cycle that fetches one of the twelve panics
\* with every field as it was, the timers not ticked.
C16_TodoActual ==
    (RanCycle /\ hist[1].op \in TodoArms) => status = TodoPanic /\ Unchanged(Pre)

----------------------------------------------------------------------------
\* The instructions that neither skip nor jump, by handler.
PlainArms ==
    { "set_const", "add_const", "set", "or", "and", "add", "sub", "set_i", "rand",
      "draw", "get_delay", "set_delay", "set_sound", "set_i_sprite", "bcd", "reg_load" }

\* Those of them that index memory or the framebuffer, and so may panic.
IndexingArms == { "draw", "bcd", "reg_load" }

\* The constant and the address in the last opcode.
OpConst == hist[1].word % 256
OpAddr == hist[1].word % 4096

----------------------------------------------------------------------------
\* The cells the step's sprite has a set bit for, from the registers and
\* the memory the step starts with: bit 7 - c of memory[I + r] is column
\* VX + c of row VY + r.
StepSpriteCells ==
    { V[StepX] + c + (V[StepY] + r) * 64 : <<c, r>> \in
        { cr \in (0..7) \X (0..(StepN - 1)) :
            (memory[I + cr[2]] \div Pow2(7 - cr[1])) % 2 = 1 } }

StepSpriteInside ==
    /\ V[StepX] + 7 <= 63 /\ V[StepY] + StepN - 1 <= 31
    /\ I + StepN - 1 <= 4095

\* C18: a DXYN whose sprite lies inside the framebuffer (its bytes
\* inside memory) returns with exactly the sprite's cells toggled, the
\* sprite placed by VX and VY as they were before the draw; VF is 1 when
\* one of those cells was set before and 0 when none was, whatever VF was;
\* the other registers, I and memory are as before.
C18_DrawSemantics ==
    [][ (CycleStep("draw") /\ StepSpriteInside) =>
           /\ status' = "running"
           /\ screen' = (screen \ StepSpriteCells) \cup (StepSpriteCells \ screen)
           /\ V'[15] = (IF StepSpriteCells \cap screen # {} THEN 1 ELSE 0)
           /\ \A r \in 0..14 : V'[r] = V[r]
           /\ I' = I
           /\ memory' = memory ]_vars

\* DFYN twice: the first with VF = 1 drew the font's "1" at column 1
\* and left VF = 0; the second drew it at column 0, over the first, where
\* the sprites meet below their first row only, and left VF = 1.
C18_Witness ==
    /\ Ran("draw") /\ RanBefore("draw") /\ Returned
    /\ OpX = 15 /\ SpriteInside
    /\ Pre2.V[15] = 1 /\ Pre2.screen = {}
    /\ Pre.V[15] = 0
    /\ Pre.screen = { c + 1 : c \in SpriteCells }
    /\ SpriteX = 0
    /\ SpriteCells \cap Pre.screen # {}
    /\ \A c \in 0..7 : c + SpriteY * 64 \notin SpriteCells \cap Pre.screen
    /\ screen = (Pre.screen \ SpriteCells) \cup (SpriteCells \ Pre.screen)
    /\ V[15] = 1

----------------------------------------------------------------------------
\* The cells of the sprite's rectangle, columns and rows beyond the edges
\* wrapped around them; the rectangle clipped at the edges is a part of it.
WrappedRectangle ==
    { ((SpriteX + c) % 64) + ((SpriteY + r) % 32) * 64 :
        <<c, r>> \in (0..7) \X (0..(OpN - 1)) }

ChangedCells == (screen \ Pre.screen) \cup (Pre.screen \ screen)

\* C19: a DXYN whose sprite bytes are in memory returns, wherever VX
\* and VY put the sprite, and the cells it changed are cells of the
\* sprite's rectangle, clipped or wrapped at the edges: none lies in the
\* row after the one its pixel belongs to.
C19_DrawStaysInRectangle ==
    (Ran("draw") /\ Pre.I + OpN - 1 <= 4095) =>
        /\ Returned
        /\ ChangedCells \subseteq WrappedRectangle

\* What the code does: the cell of a pixel is VX + c + (VY + r) * 64
\* with no clipping and no wrapping, so a column beyond 63 is a cell of the
\* next row, and the draw panics at the first set pixel whose cell is
\* beyond 2047, the pixels before it drawn.
C19_DrawActual ==
    (Ran("draw") /\ Pre.I + OpN - 1 <= 4095) =>
        /\ ChangedCells \subseteq
              { SpriteX + c + (SpriteY + r) * 64 : <<c, r>> \in (0..7) \X (0..(OpN - 1)) }
        /\ ~Returned =>
              /\ status = IndexPanic
              /\ SpriteX + 7 + (SpriteY + OpN - 1) * 64 >= 2048

----------------------------------------------------------------------------
\* The step would read or write memory at 4096 or beyond.
OutOfRangeStep ==
    \/ CycleStep("fetch")
    \/ CycleStep("bcd") /\ I + 2 >= 4096
    \/ CycleStep("reg_load") /\ I + StepX >= 4096
    \/ CycleStep("draw") /\ StepN >= 1 /\ I + StepN - 1 >= 4096

\* FX33 wrote the hundreds, tens and units of VX at I, I + 1 and I + 2.
BcdStored ==
    /\ memory'[I] = V[StepX] \div 100
    /\ memory'[I + 1] = (V[StepX] \div 10) % 10
    /\ memory'[I + 2] = V[StepX] % 10

\* C20: a cycle that would touch memory at 4096 or beyond - the fetch
\* with pc + 1 >= 4096, FX33 with I + 2 >= 4096, FX65 with I + X >= 4096,
\* DXYN with I + N - 1 >= 4096 - returns, with memory, the registers, the
\* framebuffer, I and pc as they were; FX33 with I + 2 <= 4095 writes the
\* three decimal digits of VX at I, I + 1, I + 2.
C20_OutOfRangeIsInertFault ==
    [][ /\ OutOfRangeStep =>
              /\ status' = "running"
              /\ memory' = memory /\ V' = V /\ screen' = screen /\ I' = I /\ pc' = pc
        /\ (CycleStep("bcd") /\ I + 2 <= 4095) => BcdStored ]_vars

\* What the code does: the index panics, with I and pc as they were, but
\* FX33 has written the digits whose address is inside memory, FX65 the
\* registers whose address is, and DXYN has reset VF; in range FX33 writes
\* the three digits and returns.
C20_OutOfRangeActual ==
    [][ /\ OutOfRangeStep =>
              /\ status' = IndexPanic
              /\ I' = I /\ pc' = pc /\ screen' = screen
              /\ CycleStep("bcd") =>
                    /\ V' = V
                    /\ I <= 4095 => memory'[I] = V[StepX] \div 100
                    /\ I + 1 <= 4095 => memory'[I + 1] = (V[StepX] \div 10) % 10
              /\ CycleStep("reg_load") =>
                    /\ memory' = memory
                    /\ \A i \in 0..StepX : I + i <= 4095 => V'[i] = memory[I + i]
              /\ CycleStep("draw") =>
                    /\ memory' = memory
                    /\ V' = [V EXCEPT ![15] = 0]
              /\ CycleStep("fetch") => memory' = memory /\ V' = V
        /\ (CycleStep("bcd") /\ I + 2 <= 4095) => status' = "running" /\ BcdStored ]_vars

============================================================================
